---------------------------- MODULE Spec2Model ----------------------------
(* Model of selfdrive/ui/mici/onroad/manual_stats_widget.py:               *)
(* ManualStatsWidget, the onroad overlay for manual-transmission driving.   *)
(* One step of the model is one call of ManualStatsWidget._render (one      *)
(* rendered frame, "tick").  The inputs of a tick are the carState          *)
(* snapshot and, on a refresh tick, the outcome of the Params read.         *)
(*                                                                          *)
(* Number representation.  Speeds (vEgo) are integers in tenths of m/s.     *)
(* Engine speeds computed by rpm_for_speed_and_gear are exact rationals     *)
(* kept as a numerator over the fixed denominator RpmDen.  Gear ratios are  *)
(* in thousandths.                                                          *)
EXTENDS Integers, FiniteSets, Sequences, TLC

\* ------------------------------------------------------------ constants
RPM_REDLINE == 7500
RPM_ECONOMY_MAX == 2500
RPM_POWER_MIN == 4000
RPM_DANGER_MIN == 6500
RPM_TARGET_MIN_DISPLAY == 750

\* the ratios of gears 2 and 4 exchanged: the table no longer decreases
BRZ_GEAR_RATIOS_Swapped == (1 :> 3626) @@ (2 :> 1213) @@ (3 :> 1541) @@ (4 :> 2188) @@ (5 :> 1000) @@ (6 :> 767)

\* gear -> ratio * 1000
BRZ_GEAR_RATIOS == (1 :> 3626) @@ (2 :> 2188) @@ (3 :> 1541) @@ (4 :> 1213) @@ (5 :> 1000) @@ (6 :> 767)

\* speed[m/s] * 4.10 * ratio * 60 / 1.977 with speed = v / 10 and
\* ratio = r / 1000 is v * r * (4.10 * 60) / (10 * 1000 * 1.977)
\* = v * r * 246 / 19770 = v * r * RpmMul / RpmDen.
RpmMul == 41
RpmDen == 3295

\* the stats refresh period, in ticks
UPDATE_PERIOD == 15
\* the length of the shift-grade flash, in ticks
FLASH_FRAMES == 150
\* the highest gear that still has an upshift target
TOP_GEAR == 6
\* opacity of the rev-match markers: clutch pressed / suggestion only
ALPHA_FULL == 220
ALPHA_SUGGESTION == 143
\* width of the meter: w - 28 with w = 250
METER_W == 222

\* ---------------------------------------------------------------- bounds
\* largest raw shift grade the snapshot delivers in the model
MaxGrade == 3
\* largest gear number the snapshot delivers in the model
MaxGearIn == 7
\* number of ticks the invocation history counts before it saturates
MaxCalls == 31

\* ----------------------------------------------------------------- state
VARIABLES
  stats,              \* self._stats
  update_counter,     \* self._update_counter
  last_shift_grade,   \* self._last_shift_grade
  shift_flash_frames, \* self._shift_flash_frames
  flash_grade,        \* self._flash_grade
  gear_before_clutch, \* self._gear_before_clutch
  rpm_filter_x,       \* self._rpm_filter.x
  in_cs,              \* the carState snapshot the last tick read (NoCS: falsy)
  did_read,           \* whether the last tick called _load_stats
  last_read,          \* outcome of the most recent Params read
  frame,              \* what the last tick drew (NoFrame: nothing)
  ncalls,             \* history: number of ticks so far, saturating
  nreads,             \* history: number of Params reads so far, saturating
  since_trigger,      \* history: drawn ticks since the latest flash trigger
  run_age,            \* history: consecutive drawn ticks showing the flash
  trig_grade,         \* history: raw grade of the latest trigger tick
  before_grade,       \* history: captured grade before the latest drawn tick
  latched,            \* history: some tick had clutch released and gear > 0
  call                \* the last direct call of rpm_for_speed_and_gear

vars == <<stats, update_counter, last_shift_grade, shift_flash_frames,
          flash_grade, gear_before_clutch, rpm_filter_x, in_cs, did_read,
          last_read, frame, ncalls, nreads, since_trigger, run_age,
          trig_grade, before_grade, latched, call>>

Min(a, b) == IF a < b THEN a ELSE b

\* ------------------------------------------------------------ the inputs
\* a snapshot that tests falsy; none of its fields is read
NoCS ==
  [present |-> FALSE, engineRpm |-> 0, gearActual |-> 0, shiftGrade |-> 0,
   clutchPressed |-> FALSE, vEgo |-> 0, isLugging |-> FALSE]

\* the skip left out: every snapshot is drawn
Missing_Never(cs) == FALSE

\* "if not cs"
Missing(cs) == ~cs.present

CarState(rpm, gear, grade, clutch, v, lug) ==
  [present |-> TRUE, engineRpm |-> rpm, gearActual |-> gear,
   shiftGrade |-> grade, clutchPressed |-> clutch, vEgo |-> v,
   isLugging |-> lug]

\* a dict is a function from some of the keys to values
EmptyStats == [k \in {} |-> 0]

StatsGet(d, key, default) == IF key \in DOMAIN d THEN d[key] ELSE default

FullStats(sugg, launches, good_launches, shifts, good_shifts) ==
  [k \in {"shift_suggestion", "launches", "good_launches", "stalls", "lugs",
          "shifts", "good_shifts"} |->
     CASE k = "shift_suggestion" -> sugg
       [] k = "launches" -> launches
       [] k = "good_launches" -> good_launches
       [] k = "shifts" -> shifts
       [] k = "good_shifts" -> good_shifts
       [] OTHER -> 0]

\* outcomes of self._params.get("ManualDriveLiveStats")
ReadData(d) == [kind |-> "data", val |-> d]
ReadNone == [kind |-> "none", val |-> EmptyStats]
ReadRaise == [kind |-> "raise", val |-> EmptyStats]
NoRead == [kind |-> "noread", val |-> EmptyStats]

\* ------------------------------------------------- rpm_for_speed_and_gear
\* the speed test left out: "if gear not in BRZ_GEAR_RATIOS"
rpm_for_speed_and_gear_NoSpeedTest(speed, gear) ==
  IF gear \notin DOMAIN BRZ_GEAR_RATIOS
  THEN 0
  ELSE speed * BRZ_GEAR_RATIOS[gear] * RpmMul

\* the result as a numerator over RpmDen
rpm_for_speed_and_gear(speed, gear) ==
  IF gear \notin DOMAIN BRZ_GEAR_RATIOS \/ speed <= 0
  THEN 0
  ELSE speed * BRZ_GEAR_RATIOS[gear] * RpmMul

\* ------------------------------------------------------------ _load_stats
\* "except: pass": a read that raises leaves the cached stats in place
LoadStats_RaiseKeeps(rd) ==
  IF rd.kind = "raise" THEN stats
  ELSE IF rd.kind = "data" /\ rd.val # EmptyStats THEN rd.val
  ELSE EmptyStats

\* "if data: self._stats = data": an empty read leaves the cached stats
LoadStats_NoneKeeps(rd) ==
  IF rd.kind = "raise" THEN EmptyStats
  ELSE IF rd.kind = "data" /\ rd.val # EmptyStats THEN rd.val
  ELSE stats

LoadStats(rd) ==
  IF rd.kind = "raise" THEN EmptyStats
  ELSE IF rd.kind = "data" /\ rd.val # EmptyStats THEN rd.val
  ELSE EmptyStats

\* ------------------------------------------------------------- scheduler
\* "> 15" in place of ">= 15"
RefreshDue_Late(counter) == counter + 1 > UPDATE_PERIOD

RefreshDue(counter) == counter + 1 >= UPDATE_PERIOD

\* --------------------------------------------------- shift-grade flash
\* a level test in place of the edge test: any change to a nonzero grade
NewShift_AnyChange(grade, last) == grade > 0 /\ grade # last

\* a rising edge taken only when no flash is in progress
NewShift_OnlyIdle(grade, last) == grade > 0 /\ last = 0 /\ shift_flash_frames = 0

\* "only trigger when shiftGrade goes from 0 to non-zero"
NewShift(grade, last) == grade > 0 /\ last = 0

\* the countdown started one short
FlashStart_OneShort(trig, frames) == IF trig THEN FLASH_FRAMES - 1 ELSE frames

\* the countdown after the trigger test and before the draw
FlashStart(trig, frames) == IF trig THEN FLASH_FRAMES ELSE frames

\* the decrement without its guard
FlashCountdown_Unguarded(frames) == frames - 1

\* the countdown after the draw
FlashCountdown(frames) == IF frames > 0 THEN frames - 1 ELSE frames

GradeColor(grade) ==
  IF grade = 1 THEN "GREEN" ELSE IF grade = 2 THEN "YELLOW" ELSE "RED"

\* the glyphs: check mark, tilde, ballot x
GradeText(grade) ==
  IF grade = 1 THEN "check" ELSE IF grade = 2 THEN "tilde" ELSE "cross"

GearText(gear) == IF gear > 0 THEN gear ELSE 0

\* gear label: flash colour and glyph if recently shifted, else white
\* the glyph and colour taken from the previous tick's raw grade
GearLabel_PrevRaw(gear, frames, grade) ==
  IF frames > 0
  THEN [text |-> GearText(gear), color |-> GradeColor(last_shift_grade),
        glyph |-> GradeText(last_shift_grade)]
  ELSE [text |-> GearText(gear), color |-> "WHITE", glyph |-> "none"]

GearLabel(gear, frames, grade) ==
  IF frames > 0
  THEN [text |-> GearText(gear), color |-> GradeColor(grade),
        glyph |-> GradeText(grade)]
  ELSE [text |-> GearText(gear), color |-> "WHITE", glyph |-> "none"]

\* ------------------------------------------------------- stats displays
SuggestionArrow(st) ==
  LET suggestion == StatsGet(st, "shift_suggestion", "ok")
  IN IF suggestion = "upshift" THEN "up"
     ELSE IF suggestion = "downshift" THEN "down"
     ELSE "none"

\* int(a / b * 100)
Pct(a, b) == (a * 100) \div b

\* the two speed bounds taken as inclusive
Launching_Inclusive(cs) == cs.vEgo <= 50 /\ cs.vEgo >= 5 /\ ~cs.clutchPressed

Launching(cs) == cs.vEgo < 50 /\ cs.vEgo > 5 /\ ~cs.clutchPressed

LaunchLabel(cs, st) ==
  LET launches == StatsGet(st, "launches", 0)
      good_launches == StatsGet(st, "good_launches", 0)
  IN IF Launching(cs)
     THEN [kind |-> "launching", good |-> 0, total |-> 0, color |-> "CYAN"]
     ELSE IF launches > 0
     THEN LET pct == Pct(good_launches, launches)
          IN [kind |-> "ratio", good |-> good_launches, total |-> launches,
              color |-> IF pct >= 75 THEN "GREEN"
                        ELSE IF pct >= 50 THEN "YELLOW" ELSE "GRAY"]
     ELSE [kind |-> "nodata", good |-> 0, total |-> 0, color |-> "GRAY"]

StallLugLabel(cs, st) ==
  LET stalls == StatsGet(st, "stalls", 0)
      lugs == StatsGet(st, "lugs", 0)
  IN IF cs.isLugging
     THEN [kind |-> "lugging", stalls |-> 0, lugs |-> 0,
           stall_color |-> "RED", lug_color |-> "RED"]
     ELSE [kind |-> "counts", stalls |-> stalls, lugs |-> lugs,
           stall_color |-> IF stalls = 0 THEN "GREEN" ELSE "RED",
           lug_color |-> IF lugs = 0 THEN "GREEN" ELSE "YELLOW"]

ShiftLabel(st) ==
  LET shifts == StatsGet(st, "shifts", 0)
      good_shifts == StatsGet(st, "good_shifts", 0)
  IN IF shifts > 0
     THEN LET pct == Pct(good_shifts, shifts)
          IN [kind |-> "pct", pct |-> pct,
              color |-> IF pct >= 80 THEN "GREEN"
                        ELSE IF pct >= 50 THEN "YELLOW" ELSE "RED"]
     ELSE [kind |-> "nodata", pct |-> 0, color |-> "GRAY"]

\* ------------------------------------------------------ _draw_rpm_meter
\* int(w * min(rpm / RPM_REDLINE, 1.0))
FillW(rpm) ==
  IF rpm >= RPM_REDLINE THEN METER_W ELSE (METER_W * rpm) \div RPM_REDLINE

\* the zone taken from the filter accumulator
BarColor_Filtered(rpm) ==
  LET x == rpm_filter_x
  IN IF x < RPM_ECONOMY_MAX THEN "GREEN"
     ELSE IF x < RPM_POWER_MIN THEN "YELLOW"
     ELSE IF x < RPM_DANGER_MIN THEN "ORANGE"
     ELSE "RED"

BarColor(rpm) ==
  IF rpm < RPM_ECONOMY_MAX THEN "GREEN"
  ELSE IF rpm < RPM_POWER_MIN THEN "YELLOW"
  ELSE IF rpm < RPM_DANGER_MIN THEN "ORANGE"
  ELSE "RED"

\* the clutch test left out
TrackGear_IgnoreClutch(cs, gbc) ==
  IF cs.gearActual > 0 THEN cs.gearActual ELSE gbc

\* the tracker following the reported gear whenever the clutch is released,
\* neutral included
TrackGear_ResetOnNeutral(cs, gbc) ==
  IF ~cs.clutchPressed THEN cs.gearActual ELSE gbc

TrackGear(cs, gbc) ==
  IF ~cs.clutchPressed /\ cs.gearActual > 0 THEN cs.gearActual ELSE gbc

\* the visibility test placed before the tracker update
ShowRevTargets_StaleTracker(cs, st, gbc) ==
  (cs.clutchPressed \/ StatsGet(st, "shift_suggestion", "ok") # "ok")
  /\ gear_before_clutch > 0

ShowRevTargets(cs, st, gbc) ==
  (cs.clutchPressed \/ StatsGet(st, "shift_suggestion", "ok") # "ok") /\ gbc > 0

RevAlpha(cs) == IF cs.clutchPressed THEN ALPHA_FULL ELSE ALPHA_SUGGESTION

\* the gear handed to rpm_for_speed_and_gear, 0 when it is not called
DownGear(gbc) == IF gbc > 1 THEN gbc - 1 ELSE 0
UpGear(gbc) == IF gbc < TOP_GEAR THEN gbc + 1 ELSE 0

\* the snapshot's current gear used in place of the tracker
DownRpm_RawGear(cs, gbc) ==
  IF gbc > 1 THEN rpm_for_speed_and_gear(cs.vEgo, cs.gearActual - 1) ELSE 0

DownRpm(cs, gbc) ==
  IF gbc > 1 THEN rpm_for_speed_and_gear(cs.vEgo, gbc - 1) ELSE 0

UpRpm(cs, gbc) ==
  IF gbc < TOP_GEAR THEN rpm_for_speed_and_gear(cs.vEgo, gbc + 1) ELSE 0

\* int(round(rpm / 10) * 10) for rpm = num / den; round() rounds half to even
Round10(num, den) ==
  LET d == 10 * den
      q == num \div d
      r == num % d
  IN 10 * (IF 2 * r > d THEN q + 1
           ELSE IF 2 * r < d THEN q
           ELSE IF q % 2 = 0 THEN q ELSE q + 1)

\* int(w * (rpm / RPM_REDLINE)), the offset of a marker from the left edge;
\* w / RPM_REDLINE is reduced by 6 to stay within 32-bit integers
MarkerX(rpm) == ((METER_W \div 6) * rpm) \div ((RPM_REDLINE \div 6) * RpmDen)

NoMarker == [kind |-> "none", x |-> 0, label |-> 0, color |-> "none"]

\* the display threshold left out: "elif down_rpm > 0"
DownMarker_NoThreshold(down_rpm) ==
  IF down_rpm >= RPM_REDLINE * RpmDen
  THEN [kind |-> "warning", x |-> METER_W,
        label |-> Round10(down_rpm, RpmDen), color |-> "RED"]
  ELSE IF down_rpm > 0
  THEN [kind |-> "normal", x |-> MarkerX(down_rpm),
        label |-> Round10(down_rpm, RpmDen), color |-> "CYAN"]
  ELSE NoMarker

DownMarker(down_rpm) ==
  IF down_rpm >= RPM_REDLINE * RpmDen
  THEN [kind |-> "warning", x |-> METER_W,
        label |-> Round10(down_rpm, RpmDen), color |-> "RED"]
  ELSE IF down_rpm > RPM_TARGET_MIN_DISPLAY * RpmDen
  THEN [kind |-> "normal", x |-> MarkerX(down_rpm),
        label |-> Round10(down_rpm, RpmDen), color |-> "CYAN"]
  ELSE NoMarker

\* the downshift branches copied: a warning marker over the redline
UpMarker_WarnsToo(up_rpm) ==
  IF up_rpm >= RPM_REDLINE * RpmDen
  THEN [kind |-> "warning", x |-> METER_W,
        label |-> Round10(up_rpm, RpmDen), color |-> "RED"]
  ELSE IF up_rpm > RPM_TARGET_MIN_DISPLAY * RpmDen
  THEN [kind |-> "normal", x |-> MarkerX(up_rpm),
        label |-> Round10(up_rpm, RpmDen), color |-> "WHITE"]
  ELSE NoMarker

UpMarker(up_rpm) ==
  IF up_rpm > RPM_TARGET_MIN_DISPLAY * RpmDen /\ up_rpm < RPM_REDLINE * RpmDen
  THEN [kind |-> "normal", x |-> MarkerX(up_rpm),
        label |-> Round10(up_rpm, RpmDen), color |-> "WHITE"]
  ELSE NoMarker

\* the rev-match part of the meter
RevTargets(cs, st, gbc) ==
  IF ShowRevTargets(cs, st, gbc)
  THEN [shown |-> TRUE, alpha |-> RevAlpha(cs),
        down_gear |-> DownGear(gbc), up_gear |-> UpGear(gbc),
        down_rpm |-> DownRpm(cs, gbc), up_rpm |-> UpRpm(cs, gbc),
        down |-> DownMarker(DownRpm(cs, gbc)),
        up |-> UpMarker(UpRpm(cs, gbc))]
  ELSE [shown |-> FALSE, alpha |-> 0, down_gear |-> 0, up_gear |-> 0,
        down_rpm |-> 0, up_rpm |-> 0, down |-> NoMarker, up |-> NoMarker]

\* FirstOrderFilter.update: x <- x + (raw - x) * (period / timeConstant),
\* period 1/60 s, time constant 0.1 s; in whole rpm
FilterGainDen == 6
FilterUpdate(x, raw) == x + ((raw - x) \div FilterGainDen)

NoFrame == [drawn |-> FALSE]

\* ---------------------------------------------------------------- _render
\* One call of _render with snapshot cs and, should the refresh be due, the
\* Params read outcome rd.
Render(cs, rd) ==
  LET due == RefreshDue(update_counter)
      st == IF due THEN LoadStats(rd) ELSE stats
  IN /\ update_counter' = (IF due THEN 0 ELSE update_counter + 1)
     /\ stats' = st
     /\ did_read' = due
     /\ last_read' = (IF due THEN rd ELSE last_read)
     /\ in_cs' = cs
     /\ IF Missing(cs)
        THEN /\ frame' = NoFrame
             /\ UNCHANGED <<last_shift_grade, shift_flash_frames, flash_grade,
                            gear_before_clutch, rpm_filter_x>>
        ELSE LET gbc == TrackGear(cs, gear_before_clutch)
                 x == FilterUpdate(rpm_filter_x, cs.engineRpm)
                 trig == NewShift(cs.shiftGrade, last_shift_grade)
                 frames == FlashStart(trig, shift_flash_frames)
                 grade == IF trig THEN cs.shiftGrade ELSE flash_grade
             IN /\ gear_before_clutch' = gbc
                /\ rpm_filter_x' = x
                /\ last_shift_grade' = cs.shiftGrade
                /\ flash_grade' = grade
                /\ shift_flash_frames' = FlashCountdown(frames)
                /\ frame' = [drawn |-> TRUE,
                             countdown |-> frames,
                             fill_w |-> FillW(cs.engineRpm),
                             bar_color |-> BarColor(cs.engineRpm),
                             rev |-> RevTargets(cs, st, gbc),
                             rpm_text |-> Round10(x, 1),
                             gear |-> GearLabel(cs.gearActual, frames, grade),
                             arrow |-> SuggestionArrow(st),
                             launch |-> LaunchLabel(cs, st),
                             stall_lug |-> StallLugLabel(cs, st),
                             shift |-> ShiftLabel(st)]

\* The history of a run, kept beside the program's state.  ncalls and nreads
\* count the first MaxCalls ticks and the Params reads made in them (when
\* count_calls); since_trigger counts the drawn ticks since the latest flash
\* trigger, that tick included; run_age counts the consecutive drawn ticks
\* that showed the flash (when count_run).  Both saturate above FLASH_FRAMES.
\* trig_grade is the raw grade of the latest trigger tick; before_grade is
\* the captured grade as the latest drawn tick found it; latched tells
\* whether some drawn tick had the clutch released and a gear > 0.
History(cs, count_calls, count_run) ==
  /\ ncalls' = (IF count_calls THEN Min(ncalls + 1, MaxCalls) ELSE ncalls)
  /\ nreads' = (IF count_calls /\ ncalls < MaxCalls /\ RefreshDue(update_counter)
                THEN nreads + 1 ELSE nreads)
  /\ IF Missing(cs)
     THEN UNCHANGED <<since_trigger, run_age, trig_grade, before_grade, latched>>
     ELSE LET trig == cs.shiftGrade > 0 /\ last_shift_grade = 0
              shown == trig \/ shift_flash_frames > 0
          IN /\ since_trigger' = (IF trig THEN 1
                                  ELSE Min(since_trigger + 1, FLASH_FRAMES + 1))
             /\ trig_grade' = (IF trig THEN cs.shiftGrade ELSE trig_grade)
             /\ before_grade' = flash_grade
             /\ latched' = (latched \/ (~cs.clutchPressed /\ cs.gearActual > 0))
             /\ run_age' = (IF count_run /\ shown
                            THEN Min(run_age + 1, FLASH_FRAMES + 1)
                            ELSE 0)

Tick(cs, rd, count_calls, count_run) ==
  Render(cs, rd) /\ History(cs, count_calls, count_run) /\ UNCHANGED call

\* the result of rpm_for_speed_and_gear(speed, gear) and the markers the
\* resolver draws for it as a downshift and as an upshift target
NoCall ==
  [speed |-> 0, gear |-> 0, result |-> 0, down |-> NoMarker, up |-> NoMarker]

\* A direct call of rpm_for_speed_and_gear.
Calc(speed, gear) ==
  /\ call' = [speed |-> speed, gear |-> gear,
              result |-> rpm_for_speed_and_gear(speed, gear),
              down |-> DownMarker(rpm_for_speed_and_gear(speed, gear)),
              up |-> UpMarker(rpm_for_speed_and_gear(speed, gear))]
  /\ UNCHANGED <<stats, update_counter, last_shift_grade, shift_flash_frames,
                 flash_grade, gear_before_clutch, rpm_filter_x, in_cs,
                 did_read, last_read, frame, ncalls, nreads, since_trigger,
                 run_age, trig_grade, before_grade, latched>>

\* ------------------------------------------------------------------ Init
\* the state after ManualStatsWidget.__init__
Init ==
  /\ stats = EmptyStats
  /\ update_counter = 0
  /\ last_shift_grade = 0
  /\ shift_flash_frames = 0
  /\ flash_grade = 0
  /\ gear_before_clutch = 0
  /\ rpm_filter_x = 0
  /\ in_cs = NoCS
  /\ did_read = FALSE
  /\ last_read = NoRead
  /\ frame = NoFrame
  /\ ncalls = 0
  /\ nreads = 0
  /\ since_trigger = FLASH_FRAMES + 1
  /\ run_age = 0
  /\ trig_grade = 0
  /\ before_grade = 0
  /\ latched = FALSE
  /\ call = NoCall

\* ------------------------------------------------------ specifications
SomeStats == FullStats("ok", 4, 3, 10, 8)

\* the Params read is made on a refresh tick only
ReadsAt(outcomes) ==
  IF RefreshDue(update_counter) THEN outcomes ELSE {NoRead}

\* The shift-grade flash: the raw grade varies, snapshots may be missing.
FlashCS == {CarState(0, 3, g, FALSE, 0, FALSE) : g \in 0..MaxGrade} \cup {NoCS}

NextFlash ==
  \E cs \in FlashCS : \E rd \in ReadsAt({ReadData(SomeStats)}) :
    Tick(cs, rd, FALSE, FALSE)

SpecFlash == Init /\ [][NextFlash]_vars

\* The same, with the length of each flash run counted: a run that a second
\* rising edge extends is seen to its end.
RunCS == {CarState(0, 3, g, FALSE, 0, FALSE) : g \in {0, 2}} \cup {NoCS}

NextRun ==
  \E cs \in RunCS : \E rd \in ReadsAt({ReadData(SomeStats)}) :
    Tick(cs, rd, FALSE, TRUE)

SpecRun == Init /\ [][NextRun]_vars

\* Flashes of two different grades, with the length of each run counted; a
\* snapshot on every tick.
RestartCS == {CarState(0, 3, g, FALSE, 0, FALSE) : g \in {0, 1, 2}}

NextRestart ==
  \E cs \in RestartCS : \E rd \in ReadsAt({ReadData(SomeStats)}) :
    Tick(cs, rd, FALSE, TRUE)

SpecRestart == Init /\ [][NextRestart]_vars

\* The skipped tick: flash, tracker, filter and cached stats all vary.
SkipCS ==
  {NoCS, CarState(0, 0, 0, FALSE, 0, FALSE), CarState(6, 2, 1, FALSE, 0, FALSE)}

NextSkip ==
  \E cs \in SkipCS : \E rd \in ReadsAt({ReadData(SomeStats), ReadRaise}) :
    Tick(cs, rd, FALSE, FALSE)

SpecSkip == Init /\ [][NextSkip]_vars

\* The scheduler: the ticks and the Params reads are counted.
SchedCS == {NoCS, CarState(0, 3, 0, FALSE, 0, FALSE)}

NextSched ==
  \E cs \in SchedCS : \E rd \in ReadsAt({ReadData(SomeStats), ReadNone, ReadRaise}) :
    Tick(cs, rd, TRUE, FALSE)

SpecSched == Init /\ [][NextSched]_vars

\* Rev-match targets and the stats displays: gear, clutch, speed and the
\* stats store vary; the raw shift grade stays 0.
Speeds == {0, 20, 400}

RevCS ==
  {CarState(0, g, 0, c, v, FALSE) : g \in 0..MaxGearIn, c \in BOOLEAN, v \in Speeds}
  \cup {NoCS}

PartialStats == [k \in {"launches", "good_launches"} |-> IF k = "launches" THEN 2 ELSE 1]

StoreReads ==
  {ReadData(SomeStats), ReadData(FullStats("upshift", 4, 2, 10, 5)),
   ReadData(FullStats("downshift", 0, 0, 0, 0)), ReadData(PartialStats),
   ReadNone, ReadRaise}

Next ==
  \E cs \in RevCS : \E rd \in ReadsAt(StoreReads) : Tick(cs, rd, FALSE, FALSE)

Spec == Init /\ [][Next]_vars

\* The launch display: speeds at and around 0.5 and 5.0 m/s, both clutch
\* states, and launch records at and around the 75 % and 50 % thresholds.
LaunchSpeeds == {0, 5, 6, 49, 50, 100}

LaunchCS ==
  {CarState(0, 1, 0, c, v, FALSE) : c \in BOOLEAN, v \in LaunchSpeeds} \cup {NoCS}

LaunchReads ==
  {ReadData(FullStats("ok", 4, 3, 10, 8)), ReadData(FullStats("ok", 4, 2, 10, 8)),
   ReadData(FullStats("ok", 100, 49, 10, 8)), ReadData(FullStats("ok", 100, 74, 10, 8)),
   ReadData(FullStats("ok", 0, 0, 0, 0)), ReadNone}

NextLaunch ==
  \E cs \in LaunchCS : \E rd \in ReadsAt(LaunchReads) : Tick(cs, rd, FALSE, FALSE)

SpecLaunch == Init /\ [][NextLaunch]_vars

\* The engine-speed meter: raw engine speeds at the zone limits and at the
\* redline, so that the filter accumulator and the raw value lie in
\* different zones.
MeterRpms == {0, 2499, 2500, 4000, 6500, 7500}

MeterCS == {CarState(r, 3, 0, FALSE, 0, FALSE) : r \in MeterRpms} \cup {NoCS}

NextMeter ==
  \E cs \in MeterCS : \E rd \in ReadsAt({ReadData(SomeStats)}) :
    Tick(cs, rd, FALSE, FALSE)

SpecMeter == Init /\ [][NextMeter]_vars

\* The two targets side by side: speeds at which the upshift target of
\* first gear is displayed (10 m/s) and at which a downshift target is over
\* the redline while the upshift target is not (17 m/s).
PairSpeeds == {0, 20, 100, 170, 400}

PairCS ==
  {CarState(0, g, 0, c, v, FALSE) : g \in 0..MaxGearIn, c \in BOOLEAN, v \in PairSpeeds}
  \cup {NoCS}

NextPair ==
  \E cs \in PairCS :
    \E rd \in ReadsAt({ReadData(SomeStats), ReadData(FullStats("upshift", 4, 2, 10, 5))}) :
      Tick(cs, rd, FALSE, FALSE)

SpecPair == Init /\ [][NextPair]_vars

\* The target-rpm calculator on its own: speeds at and below 0, gears
\* below, in and above the ratio table.
CalcSpeeds == {-10, 0, 1, 10, 20, 50, 100, 170, 300, 400}

CalcGears == (-2)..(MaxGearIn + 1)

NextCalc == \E v \in CalcSpeeds : \E g \in CalcGears : Calc(v, g)

SpecCalc == Init /\ [][NextCalc]_vars

\* ---------------------------------------------------------------- claims
FlashShown == frame.drawn /\ frame.gear.glyph # "none"

\* C1: on a tick with a snapshot, the flash is triggered if and only if the
\* raw grade of the previous such tick was 0 and this tick's raw grade is
\* nonzero.  A triggering tick draws with the countdown at 150 and captures
\* the grade; any other tick draws with the countdown it inherited and keeps
\* the captured grade.  Every such tick stores the raw grade in last_grade.
C1_RisingEdge ==
  [][in_cs'.present =>
       LET g == in_cs'.shiftGrade
       IN /\ last_shift_grade' = g
          /\ IF last_shift_grade = 0 /\ g # 0
             THEN /\ frame'.countdown = FLASH_FRAMES
                  /\ flash_grade' = g
                  /\ since_trigger' = 1
             ELSE /\ frame'.countdown = shift_flash_frames
                  /\ flash_grade' = flash_grade
                  /\ since_trigger' # 1]_vars

\* C1's case: a flash was triggered, and the raw grade has since changed
\* to another nonzero grade without a new trigger.
C1_Witness ==
  /\ in_cs.present
  /\ flash_grade > 0
  /\ in_cs.shiftGrade > 0
  /\ in_cs.shiftGrade # flash_grade

\* C2 as stated: counted from the tick that started it, a flash is shown on
\* no more than 150 drawn ticks, whatever raw grades arrive meanwhile.
C2_Original == FlashShown => run_age <= FLASH_FRAMES

\* C2 as amended: a drawn tick shows the flash exactly when it is among the
\* 150 drawn ticks counted from the latest trigger (that tick included); the
\* 151st shows the gear label in white with no glyph.  A flash therefore
\* lasts 150 drawn ticks from its latest rising edge.
C2_FlashLength ==
  frame.drawn =>
    /\ FlashShown <=> since_trigger <= FLASH_FRAMES
    /\ ~FlashShown => frame.gear.color = "WHITE" /\ shift_flash_frames = 0
    /\ FlashShown => shift_flash_frames = FLASH_FRAMES - since_trigger

\* C2's case: the last shown tick of a flash that a second rising edge
\* extended beyond 150 ticks.
C2_Witness ==
  /\ FlashShown
  /\ since_trigger = FLASH_FRAMES
  /\ run_age = FLASH_FRAMES + 1

\* C3: frames_remaining is never negative, and a tick raises it only if the
\* tick is a rising-edge trigger, which resets the countdown to 150 (the
\* tick's own draw then takes one off).
C3_Countdown ==
  /\ [](shift_flash_frames >= 0)
  /\ [][shift_flash_frames' > shift_flash_frames =>
          /\ in_cs'.present
          /\ last_shift_grade = 0
          /\ in_cs'.shiftGrade > 0
          /\ frame'.countdown = FLASH_FRAMES
          /\ shift_flash_frames' = FLASH_FRAMES - 1]_vars

\* C3's case: a rising edge has just raised the countdown.
C3_Witness ==
  /\ frame.drawn
  /\ since_trigger = 1
  /\ frame.countdown = FLASH_FRAMES
  /\ shift_flash_frames = FLASH_FRAMES - 1
  /\ in_cs.shiftGrade = MaxGrade

C5_Tracker ==
  [][gear_before_clutch' =
       (IF in_cs'.present /\ ~in_cs'.clutchPressed /\ in_cs'.gearActual > 0
        THEN in_cs'.gearActual
        ELSE gear_before_clutch)]_vars

\* C5's case: the clutch is held, the snapshot reports another valid gear,
\* and the tracker still holds the gear latched before the press.
C5_Witness ==
  /\ in_cs.present
  /\ in_cs.clutchPressed
  /\ in_cs.gearActual > 0
  /\ gear_before_clutch > 0
  /\ gear_before_clutch # in_cs.gearActual

\* C6: on a drawn tick the rev-match targets are shown if and only if
\* (clutch pressed or cached shift_suggestion # "ok") and tracker > 0, the
\* tracker and the cached stats being those after this tick's updates; shown
\* targets have full emphasis with the clutch pressed and reduced emphasis
\* otherwise.
C6_Visibility ==
  frame.drawn =>
    /\ frame.rev.shown <=>
         /\ in_cs.clutchPressed \/ StatsGet(stats, "shift_suggestion", "ok") # "ok"
         /\ gear_before_clutch > 0
    /\ frame.rev.shown =>
         frame.rev.alpha = (IF in_cs.clutchPressed THEN ALPHA_FULL
                            ELSE ALPHA_SUGGESTION)
    /\ ~frame.rev.shown =>
         frame.rev.down.kind = "none" /\ frame.rev.up.kind = "none"

\* C6's case: targets shown at reduced emphasis, on the strength of a
\* suggestion alone.
C6_Witness ==
  /\ frame.drawn
  /\ frame.rev.shown
  /\ ~in_cs.clutchPressed
  /\ frame.rev.alpha = ALPHA_SUGGESTION

\* C7: the counter is in 0..14 between ticks; a tick reads the stats store
\* exactly when it is the 15th since the last read (or since construction),
\* and resets the counter to 0 then; over the first MaxCalls ticks the
\* counter is the number of ticks modulo 15 and the number of reads is the
\* number of ticks divided by 15.
C7_EveryFifteenth ==
  /\ [](/\ update_counter \in 0..(UPDATE_PERIOD - 1)
        /\ did_read => update_counter = 0
        /\ ncalls < MaxCalls =>
             /\ update_counter = ncalls % UPDATE_PERIOD
             /\ nreads = ncalls \div UPDATE_PERIOD
             /\ did_read <=> (ncalls > 0 /\ ncalls % UPDATE_PERIOD = 0))
  /\ [][/\ did_read' <=> (update_counter = UPDATE_PERIOD - 1)
        /\ update_counter' = (update_counter + 1) % UPDATE_PERIOD
        /\ ~did_read' => last_read' = last_read /\ stats' = stats]_vars

\* C7's case: the 30th tick after construction makes the second read.
C7_Witness ==
  /\ ncalls = 2 * UPDATE_PERIOD
  /\ nreads = 2
  /\ did_read
  /\ update_counter = 0

\* C8: after a refresh the cached stats are the value read when the read
\* returned data, and the empty mapping when it raised or returned nothing;
\* the tick then goes on to draw.
C8_FailSoft ==
  did_read =>
    /\ last_read.kind \in {"data", "none", "raise"}
    /\ last_read.kind = "data" => stats = last_read.val
    /\ last_read.kind \in {"none", "raise"} => stats = EmptyStats
    /\ in_cs.present => frame.drawn

\* C8's case: the read raised on a drawn tick.
C8_Witness ==
  /\ did_read
  /\ last_read.kind = "raise"
  /\ stats = EmptyStats
  /\ frame.drawn

\* C9: from a refresh that raised or returned nothing until the next
\* refresh, every drawn tick shows the no-data forms: the launch label is the
\* placeholder unless the car is launching, the shift percentage is the
\* placeholder, no suggestion arrow is drawn, and rev-match targets are shown
\* only with the clutch pressed.
C9_NoData ==
  (last_read.kind \in {"none", "raise"} /\ frame.drawn) =>
    /\ frame.launch.kind = (IF Launching(in_cs) THEN "launching" ELSE "nodata")
    /\ frame.shift.kind = "nodata"
    /\ frame.arrow = "none"
    /\ frame.rev.shown => in_cs.clutchPressed

\* C9's case: a later tick of the period after a failed refresh, not in the
\* launch window, clutch released, a gear latched.
C9_Witness ==
  /\ last_read.kind = "raise"
  /\ ~did_read
  /\ frame.drawn
  /\ ~Launching(in_cs)
  /\ ~in_cs.clutchPressed
  /\ gear_before_clutch > 0
  /\ frame.launch.kind = "nodata"

\* C10: with the targets shown, the downshift target is absent when
\* tracker <= 1 and otherwise is the target rpm of gear tracker - 1 at the
\* current speed; >= 7500 gives a warning marker at the right edge of the
\* meter, strictly between 750 and 7500 a normal marker at
\* floor(w * target / 7500) (w / 7500 reduced by 6), <= 750 (or absent) no
\* marker.
C10_Downshift ==
  (frame.drawn /\ frame.rev.shown) =>
    LET t == gear_before_clutch
        target == IF t <= 1 THEN 0
                  ELSE IF (t - 1) \in DOMAIN BRZ_GEAR_RATIOS /\ in_cs.vEgo > 0
                  THEN in_cs.vEgo * BRZ_GEAR_RATIOS[t - 1] * RpmMul
                  ELSE 0
        m == frame.rev.down
    IN /\ frame.rev.down_rpm = target
       /\ target >= RPM_REDLINE * RpmDen =>
            m.kind = "warning" /\ m.x = METER_W /\ m.color = "RED"
       /\ (target > RPM_TARGET_MIN_DISPLAY * RpmDen /\ target < RPM_REDLINE * RpmDen) =>
            /\ m.kind = "normal" /\ m.color = "CYAN"
            /\ m.x * (RPM_REDLINE \div 6) * RpmDen <= (METER_W \div 6) * target
            /\ (METER_W \div 6) * target < (m.x + 1) * (RPM_REDLINE \div 6) * RpmDen
            /\ m.x < METER_W
       /\ target <= RPM_TARGET_MIN_DISPLAY * RpmDen => m.kind = "none"

\* C10's case: a downshift target over the redline, drawn as a warning.
C10_Witness ==
  /\ frame.drawn
  /\ frame.rev.shown
  /\ gear_before_clutch > 1
  /\ frame.rev.down.kind = "warning"

\* C11: with the targets shown, the upshift target is absent when tracker is
\* 6 or above and otherwise is the target rpm of gear tracker + 1 at the
\* current speed; its marker is drawn, as a normal white marker at
\* floor(w * target / 7500), exactly when 750 < target < 7500, and it is
\* never a warning marker.
C11_Upshift ==
  (frame.drawn /\ frame.rev.shown) =>
    LET t == gear_before_clutch
        target == IF t >= TOP_GEAR THEN 0
                  ELSE IF (t + 1) \in DOMAIN BRZ_GEAR_RATIOS /\ in_cs.vEgo > 0
                  THEN in_cs.vEgo * BRZ_GEAR_RATIOS[t + 1] * RpmMul
                  ELSE 0
        m == frame.rev.up
    IN /\ frame.rev.up_rpm = target
       /\ m.kind # "warning"
       /\ m.kind = "normal" <=>
            (target > RPM_TARGET_MIN_DISPLAY * RpmDen /\ target < RPM_REDLINE * RpmDen)
       /\ m.kind = "normal" =>
            /\ m.color = "WHITE"
            /\ m.x * (RPM_REDLINE \div 6) * RpmDen <= (METER_W \div 6) * target
            /\ (METER_W \div 6) * target < (m.x + 1) * (RPM_REDLINE \div 6) * RpmDen

\* C11's case: an upshift target over the redline, for which nothing is
\* drawn, beside a downshift target drawn as a warning.
C11_Witness ==
  /\ frame.drawn
  /\ frame.rev.shown
  /\ frame.rev.up_rpm >= RPM_REDLINE * RpmDen
  /\ frame.rev.up.kind = "none"
  /\ frame.rev.down.kind = "warning"
\* C12: rpm_for_speed_and_gear(speed, gear) is exactly 0 for every gear
\* outside the ratio table (0, negative gears, gears above 6) and for every
\* speed <= 0; for a gear of the table and speed > 0 it is
\* speed * 4.10 * ratio * 60 / 1.977, here with speed = v / 10 and
\* ratio = r / 1000: result / RpmDen = v * r * 246 / 19770.  For a result of
\* 0 the resolver draws no marker, as a downshift and as an upshift target.
C12_TargetRpm ==
  /\ (call.gear \notin 1..TOP_GEAR \/ call.speed <= 0) => call.result = 0
  /\ (call.gear \in 1..TOP_GEAR /\ call.speed > 0) =>
       /\ call.result > 0
       /\ call.result * (19770 \div RpmDen)
            = call.speed * BRZ_GEAR_RATIOS[call.gear] * 246
  /\ call.result = 0 => (call.down.kind = "none" /\ call.up.kind = "none")

\* C12's case: a gear above the table at a positive speed gives 0 and no
\* marker.
C12_Witness ==
  /\ call.gear = TOP_GEAR + 1
  /\ call.speed > 0
  /\ call.result = 0
  /\ call.down.kind = "none"
\* C13: the gears the resolver hands to the calculator are tracker - 1 and
\* tracker + 1 (when it calls it at all), and the targets are those of these
\* gears at the current speed, whatever gear the snapshot reports.
C13_TrackerGears ==
  (frame.drawn /\ frame.rev.shown) =>
    LET t == gear_before_clutch
        r == frame.rev
    IN /\ r.down_gear \in {0, t - 1}
       /\ r.up_gear \in {0, t + 1}
       /\ r.down_gear = 0 <=> t <= 1
       /\ r.up_gear = 0 <=> t >= TOP_GEAR
       /\ r.down_rpm = (IF r.down_gear \in DOMAIN BRZ_GEAR_RATIOS /\ in_cs.vEgo > 0
                        THEN in_cs.vEgo * BRZ_GEAR_RATIOS[t - 1] * RpmMul
                        ELSE 0)
       /\ r.up_rpm = (IF r.up_gear \in DOMAIN BRZ_GEAR_RATIOS /\ in_cs.vEgo > 0
                      THEN in_cs.vEgo * BRZ_GEAR_RATIOS[t + 1] * RpmMul
                      ELSE 0)

\* C13's case: the clutch is held and the snapshot reports neutral; the
\* targets are those of gears 2 and 4, around the latched gear 3.
C13_Witness ==
  /\ frame.drawn
  /\ frame.rev.shown
  /\ in_cs.clutchPressed
  /\ in_cs.gearActual = 0
  /\ in_cs.vEgo > 0
  /\ gear_before_clutch = 3
  /\ frame.rev.down_rpm = in_cs.vEgo * BRZ_GEAR_RATIOS[2] * RpmMul
  /\ frame.rev.up_rpm = in_cs.vEgo * BRZ_GEAR_RATIOS[4] * RpmMul
\* C14: the launch display of a drawn tick is "launching" iff
\* 0.5 < speed < 5.0 and the clutch is not pressed, whatever the stats;
\* otherwise, with launches > 0, it is the ratio in GREEN at 75 % and above,
\* YELLOW at 50 % and above, GRAY below; otherwise the placeholder.
C14_Launch ==
  frame.drawn =>
    LET l == frame.launch
        launches == StatsGet(stats, "launches", 0)
        good == StatsGet(stats, "good_launches", 0)
        launching == in_cs.vEgo > 5 /\ in_cs.vEgo < 50 /\ ~in_cs.clutchPressed
    IN /\ l.kind = "launching" <=> launching
       /\ l.kind = "launching" => l.color = "CYAN"
       /\ (~launching /\ launches > 0) =>
            /\ l.kind = "ratio"
            /\ l.good = good
            /\ l.total = launches
            /\ l.color = (IF good * 100 >= 75 * launches THEN "GREEN"
                          ELSE IF good * 100 >= 50 * launches THEN "YELLOW"
                          ELSE "GRAY")
       /\ (~launching /\ launches <= 0) => (l.kind = "nodata" /\ l.color = "GRAY")

\* C14's case: at exactly 5.0 m/s with the clutch released the display is
\* not "launching", and 3 good launches of 4 are shown as good.
C14_Witness ==
  /\ frame.drawn
  /\ in_cs.vEgo = 50
  /\ ~in_cs.clutchPressed
  /\ frame.launch.kind = "ratio"
  /\ frame.launch.good = 3
  /\ frame.launch.total = 4
  /\ frame.launch.color = "GREEN"
\* C15: the zone colour and the fill width of a drawn tick are functions of
\* that tick's raw engine speed alone, so they are the same whatever the
\* filter accumulator holds; the filtered value gives the displayed number.
C15_RawMeter ==
  frame.drawn =>
    LET rpm == in_cs.engineRpm
    IN /\ frame.bar_color = (IF rpm < 2500 THEN "GREEN"
                             ELSE IF rpm < 4000 THEN "YELLOW"
                             ELSE IF rpm < 6500 THEN "ORANGE"
                             ELSE "RED")
       /\ frame.fill_w * 7500 <= METER_W * Min(rpm, 7500)
       /\ (frame.fill_w + 1) * 7500 > METER_W * Min(rpm, 7500)
       /\ frame.rpm_text = Round10(rpm_filter_x, 1)

\* C15's case: the raw engine speed is in the danger zone while the filter
\* accumulator is still in the economy zone; the bar is RED and full-scale
\* wide for the raw value, the displayed number is the filtered one.
C15_Witness ==
  /\ frame.drawn
  /\ in_cs.engineRpm = 7500
  /\ rpm_filter_x > 0
  /\ rpm_filter_x < RPM_ECONOMY_MAX
  /\ frame.bar_color = "RED"
  /\ frame.fill_w = METER_W
  /\ frame.rpm_text < RPM_ECONOMY_MAX
\* C16: a rising edge on a tick that finds a flash in progress restarts the
\* countdown at 150 and overwrites the captured grade: the tick draws the
\* new grade's glyph and colour at countdown 150, however long the flash has
\* already been shown.
C16_Restart ==
  [][(in_cs'.present /\ shift_flash_frames > 0
      /\ last_shift_grade = 0 /\ in_cs'.shiftGrade > 0) =>
       /\ frame'.drawn
       /\ frame'.countdown = FLASH_FRAMES
       /\ shift_flash_frames' = FLASH_FRAMES - 1
       /\ flash_grade' = in_cs'.shiftGrade
       /\ frame'.gear.glyph = GradeText(in_cs'.shiftGrade)
       /\ frame'.gear.color = GradeColor(in_cs'.shiftGrade)
       /\ run_age' = Min(run_age + 1, FLASH_FRAMES + 1)]_vars

\* C16's case: the 151st consecutive tick of a flash is a rising edge that
\* replaces the glyph of grade 1 by that of grade 2 and restarts the
\* countdown.
C16_Witness ==
  /\ FlashShown
  /\ since_trigger = 1
  /\ run_age = FLASH_FRAMES + 1
  /\ before_grade = 1
  /\ flash_grade = 2
  /\ frame.countdown = FLASH_FRAMES
  /\ frame.gear.glyph = GradeText(2)
\* C17: whenever the flash is displayed the captured grade is > 0, is the
\* raw grade of the latest trigger tick, and is the grade whose glyph and
\* colour are drawn; the captured grade changes on trigger ticks only.
C17_Captured ==
  /\ [](FlashShown =>
          /\ frame.countdown > 0
          /\ flash_grade > 0
          /\ flash_grade = trig_grade
          /\ frame.gear.glyph = GradeText(trig_grade)
          /\ frame.gear.color = GradeColor(trig_grade))
  /\ []((frame.drawn /\ frame.countdown > 0) => FlashShown)
  /\ [][flash_grade' # flash_grade =>
          /\ in_cs'.present
          /\ last_shift_grade = 0
          /\ in_cs'.shiftGrade > 0
          /\ since_trigger' = 1]_vars

\* C17's case: the flash of a grade-1 shift is still displayed, under the
\* glyph of grade 1, on a later tick whose raw grade has become 2.
C17_Witness ==
  /\ FlashShown
  /\ since_trigger > 1
  /\ trig_grade = 1
  /\ flash_grade = 1
  /\ in_cs.shiftGrade = 2
  /\ frame.gear.glyph = GradeText(1)
\* C18: the tracker is 0 exactly until the first drawn tick with the clutch
\* released and a gear > 0; once > 0 it stays > 0 through every later tick,
\* neutral reports and missing snapshots included; and from then on every
\* drawn tick with the clutch pressed has the rev-match targets enabled.
C18_Latch ==
  /\ [](latched <=> gear_before_clutch > 0)
  /\ [](gear_before_clutch >= 0)
  /\ []((latched /\ frame.drawn /\ in_cs.clutchPressed) => frame.rev.shown)
  /\ [][gear_before_clutch > 0 => gear_before_clutch' > 0]_vars
  /\ [][(gear_before_clutch = 0 /\ gear_before_clutch' > 0) =>
          (in_cs'.present /\ ~in_cs'.clutchPressed
           /\ in_cs'.gearActual = gear_before_clutch')]_vars

\* C18's case: a drawn tick reports neutral with the clutch released after
\* gear 3 was latched; the tracker still holds 3.
C18_Witness ==
  /\ frame.drawn
  /\ latched
  /\ ~in_cs.clutchPressed
  /\ in_cs.gearActual = 0
  /\ gear_before_clutch = 3
\* C19 as stated: whenever an upshift marker is drawn, a downshift marker
\* (normal or warning) is drawn on the same tick.
C19_Original ==
  (frame.drawn /\ frame.rev.shown /\ frame.rev.up.kind = "normal") =>
    frame.rev.down.kind \in {"normal", "warning"}

\* C19, amended: with speed > 0 and the tracker in 2..5 the downshift target
\* is strictly greater than the upshift target; with the tracker at 2 or
\* above, a drawn upshift marker comes with a downshift marker (normal or
\* warning) whose value is strictly greater and whose position is not to its
\* left; with the tracker at 1 there is no downshift target, so an upshift
\* marker is drawn alone.
C19_Ordered ==
  (frame.drawn /\ frame.rev.shown) =>
    LET t == gear_before_clutch
        r == frame.rev
    IN /\ (in_cs.vEgo > 0 /\ t \in 2..5) => r.down_rpm > r.up_rpm
       /\ (t >= 2 /\ r.up.kind = "normal") =>
            /\ r.down.kind \in {"normal", "warning"}
            /\ r.up_rpm < r.down_rpm
            /\ r.up.x <= r.down.x
            /\ r.up.label <= r.down.label
       /\ t = 1 => r.down.kind = "none"

\* C19's case: latched in gear 2 at 17 m/s, the upshift marker of gear 3 is
\* drawn together with the redline warning of gear 1.
C19_Witness ==
  /\ frame.drawn
  /\ frame.rev.shown
  /\ gear_before_clutch = 2
  /\ in_cs.vEgo = 170
  /\ frame.rev.up.kind = "normal"
  /\ frame.rev.down.kind = "warning"
  /\ frame.rev.up_rpm < frame.rev.down_rpm
=============================================================================
